---- MODULE Spec2Model ----
(***************************************************************************)
(* Model of the Aristo multi-agent RAG pipeline (src/agents):              *)
(*   AgentOrchestrator.run drives one AgentState through                   *)
(*   QueryRefinerAgent -> RetrieverAgent -> SynthesizerAgent ->            *)
(*   ReporterAgent.                                                        *)
(*                                                                         *)
(* Three specifications share the variables:                               *)
(*   Spec          one run of the pipeline (orchestrator.py + the agents)  *)
(*   SpecParse     the structured-output parse step of analyze_query       *)
(*   SpecNormalize the response normalisation of get_chunks                *)
(*                                                                         *)
(* Python values are modelled as follows.  Text returned by the model is a *)
(* sequence of tokens (a fence, the tag json, another tag, prose,          *)
(* whitespace, malformed JSON, one JSON value); None is the string None;   *)
(* a float is [type |-> "float", v |-> hundredths].                        *)
(***************************************************************************)
EXTENDS Integers, Sequences, FiniteSets, TLC

(***************************************************************************)
(* Bounds of the model.                                                    *)
(***************************************************************************)
MaxTextLen == 3      \* tokens in one model response
MaxPoints == 2       \* items in one backend response (SpecNormalize)
MaxPipePoints == 1   \* items in one backend response inside a pipeline run
MaxRuns == 2         \* calls of run on one orchestrator (SpecRuns, SpecSession)
MaxUploadPoints == 4 \* points given to upload_points
MaxBatchSize == 3    \* batch_size given to upload_points
MaxCalls == 4        \* calls made on one AgentRegistry

(***************************************************************************)
(* Python values.                                                          *)
(***************************************************************************)
None == "<None>"
Absent == "<absent>"

Queries == {"q1", "q2"}

SeqsUpTo(S, n) == UNION {[1..k -> S] : k \in 0..n}

(***************************************************************************)
(* Model responses: text as token sequences.                               *)
(***************************************************************************)
FENCE == "fence"     \* three backticks
TAG_JSON == "json"
TAG_OTHER == "yaml"
PROSE == "prose"
WS == "ws"
BADJSON == "bad"      \* JSON-like text that json.loads rejects (missing braces)
BODY == "BODY"        \* the text of one valid JSON value

Tokens == {FENCE, TAG_JSON, TAG_OTHER, PROSE, WS, BADJSON, BODY}

\* A field of a JSON object: present with a value, or missing.
JField(p, v) == [present |-> p, val |-> v]

RefinedQueryFields ==
    {JField(FALSE, Absent), JField(TRUE, "rq"), JField(TRUE, None), JField(TRUE, "")}
IntentFields == {JField(FALSE, Absent), JField(TRUE, "compare")}
ComplexityFields == {JField(FALSE, Absent), JField(TRUE, "complex")}
MultiHopFields == {JField(FALSE, FALSE), JField(TRUE, TRUE)}
KeyConceptsFields == {JField(FALSE, <<>>), JField(TRUE, <<"k1", "k2">>)}

\* JSON values the model may put in its answer.
JsonObjects ==
    [kind : {"object"},
     refined_query : RefinedQueryFields,
     intent : IntentFields,
     complexity : ComplexityFields,
     requires_multi_hop : MultiHopFields,
     key_concepts : KeyConceptsFields]

JsonScalar(k) ==
    [kind |-> k,
     refined_query |-> JField(FALSE, Absent),
     intent |-> JField(FALSE, Absent),
     complexity |-> JField(FALSE, Absent),
     requires_multi_hop |-> JField(FALSE, FALSE),
     key_concepts |-> JField(FALSE, <<>>)]

JsonNonObjects == {JsonScalar(k) : k \in {"array", "string", "number", "null"}}

JsonValues == JsonObjects \cup JsonNonObjects

NoJson == JsonScalar("none")

HasBody(layout) == \E i \in 1..Len(layout) : layout[i] = BODY

\* A response text: its token layout and the JSON value its BODY tokens spell.
Texts ==
    {[layout |-> l, body |-> b] : l \in {x \in SeqsUpTo(Tokens, MaxTextLen) : HasBody(x)},
                                   b \in JsonValues}
    \cup {[layout |-> l, body |-> NoJson] : l \in {x \in SeqsUpTo(Tokens, MaxTextLen) : ~HasBody(x)}}

NoText == [layout |-> <<>>, body |-> NoJson]

\* the response texts of a pipeline run: bare JSON, fenced JSON with and without
\* the json tag, prose around a fence, a wrong tag, prose without a fence,
\* malformed JSON, nothing
PipeLayouts ==
    {<<BODY>>,
     <<FENCE, TAG_JSON, WS, BODY, WS, FENCE>>,
     <<PROSE, WS, FENCE, WS, BODY, FENCE, PROSE>>,
     <<FENCE, TAG_OTHER, WS, BODY, WS, FENCE>>,
     <<PROSE, WS, BODY>>,
     <<BADJSON>>,
     <<>>}

PipeTexts == [layout : PipeLayouts, body : JsonValues]

(***************************************************************************)
(* str.strip, str.split, the in operator, json.loads on token sequences.   *)
(***************************************************************************)
RECURSIVE lstrip(_)
lstrip(s) == IF s # <<>> /\ Head(s) = WS THEN lstrip(Tail(s)) ELSE s

RECURSIVE rstrip(_)
rstrip(s) ==
    IF s # <<>> /\ s[Len(s)] = WS THEN rstrip(SubSeq(s, 1, Len(s) - 1)) ELSE s

strip(s) == rstrip(lstrip(s))

\* positions where sep occurs in s
Occurrences(s, sep) ==
    {i \in 1..(Len(s) - Len(sep) + 1) : SubSeq(s, i, i + Len(sep) - 1) = sep}

contains(s, sep) == Occurrences(s, sep) # {}

Min(S) == CHOOSE x \in S : \A y \in S : x <= y

\* str.split(sep): the segments between non-overlapping occurrences, left to right
RECURSIVE split(_, _)
split(s, sep) ==
    IF ~contains(s, sep)
    THEN <<s>>
    ELSE LET i == Min(Occurrences(s, sep))
         IN <<SubSeq(s, 1, i - 1)>> \o split(SubSeq(s, i + Len(sep), Len(s)), sep)

\* json.loads: succeeds exactly on the text of one JSON value
json_loads_ok(content) == content = <<BODY>>

(***************************************************************************)
(* QueryRefinerAgent.analyze_query, after the model call returned.         *)
(***************************************************************************)
\* variant: the tag after a fence is dropped whatever it is
extract_content_any_tag(content) ==
    IF contains(content, <<FENCE>>)
    THEN LET inner == split(split(content, <<FENCE>>)[2], <<FENCE>>)[1]
         IN strip(IF inner # <<>> /\ Head(inner) \in {TAG_JSON, TAG_OTHER}
                  THEN Tail(inner) ELSE inner)
    ELSE content

\* the fence removal of lines 45-48
extract_content(content) ==
    IF contains(content, <<FENCE, TAG_JSON>>)
    THEN strip(split(split(content, <<FENCE, TAG_JSON>>)[2], <<FENCE>>)[1])
    ELSE IF contains(content, <<FENCE>>)
         THEN strip(split(split(content, <<FENCE>>)[2], <<FENCE>>)[1])
         ELSE content

\* variant: the fallback dictionary without the key concepts
fallback_analysis_no_concepts(query) ==
    [kind |-> "object",
     refined_query |-> JField(TRUE, query),
     intent |-> JField(TRUE, "understand"),
     complexity |-> JField(TRUE, "medium"),
     requires_multi_hop |-> JField(TRUE, FALSE),
     key_concepts |-> JField(FALSE, <<>>)]

\* the dictionary of the except branch, lines 55-61
fallback_analysis(query) ==
    [kind |-> "object",
     refined_query |-> JField(TRUE, query),
     intent |-> JField(TRUE, "understand"),
     complexity |-> JField(TRUE, "medium"),
     requires_multi_hop |-> JField(TRUE, FALSE),
     key_concepts |-> JField(TRUE, <<query>>)]

\* TRUE when the try block of lines 43-51 raises
parse_raises(text) == ~json_loads_ok(extract_content(strip(text.layout)))

\* the value analyze_query returns for the response text
analyze_query(query, text) ==
    IF parse_raises(text) THEN fallback_analysis(query) ELSE text.body

\* the strings a returned analysis holds
strings_of(a) ==
    {f.val : f \in {x \in {a.refined_query, a.intent, a.complexity} : x.present}}
    \cup (IF a.key_concepts.present
          THEN {a.key_concepts.val[i] : i \in 1..Len(a.key_concepts.val)}
          ELSE {})

(***************************************************************************)
(* Backend responses of client.query_points and their items.               *)
(***************************************************************************)
PointId == 7          \* the id an item carries when it has one
FloatScore == 95      \* the score an item carries when it has one (0.95)
LowScore == 87        \* the score of a lower-ranked item (0.87)

FieldStates == {"absent", "null", "ok"}
PayloadStates == {"absent", "null", "content", "empty"}

\* kind "object": a record with an id attribute (ScoredPoint); "noid": an
\* object without an id attribute; "dict"; "tuple": slots 0/1/2, a missing
\* slot is absent; "scalar": none of these; "failing": reading it raises.
ObjectItems ==
    [kind : {"object"}, id : {"ok"}, score : FieldStates, payload : PayloadStates]
DictItems ==
    [kind : {"dict"}, id : {"absent", "ok"}, score : FieldStates, payload : PayloadStates]
TupleItems ==
    {p \in [kind : {"tuple"}, id : {"absent", "ok"}, score : FieldStates,
            payload : PayloadStates] :
        /\ (p.id = "absent" => p.score = "absent")
        /\ (p.score = "absent" => p.payload = "absent")}
OtherItems ==
    [kind : {"noid", "scalar", "failing"}, id : {"absent"}, score : {"absent"},
     payload : {"absent"}]

Items == ObjectItems \cup DictItems \cup TupleItems \cup OtherItems

\* the items a backend response carries inside a pipeline run
PipeItems ==
    {[kind |-> "object", id |-> "ok", score |-> "ok", payload |-> "content"],
     [kind |-> "object", id |-> "ok", score |-> "ok", payload |-> "null"],
     [kind |-> "object", id |-> "ok", score |-> "null", payload |-> "content"],
     [kind |-> "dict", id |-> "absent", score |-> "absent", payload |-> "absent"],
     [kind |-> "dict", id |-> "ok", score |-> "ok", payload |-> "empty"],
     [kind |-> "tuple", id |-> "ok", score |-> "absent", payload |-> "absent"],
     [kind |-> "scalar", id |-> "absent", score |-> "absent", payload |-> "absent"],
     [kind |-> "failing", id |-> "absent", score |-> "absent", payload |-> "absent"]}

\* The shapes of a response.  kind "tuple": first says what response[0] is
\* ("none" for the empty tuple, "list", or "scalar"); has_points says whether
\* the value has a points attribute, points is its value.
ItemShapes == {"tuple_list", "tuple_list_points", "object_points", "list"}
EmptyShapes == {"tuple_empty", "tuple_scalar", "other"}

MakeResponse(shape, s) ==
    CASE shape = "tuple_list" ->
            [kind |-> "tuple", first |-> "list", items |-> s, has_points |-> FALSE, points |-> <<>>]
      [] shape = "tuple_list_points" ->
            [kind |-> "tuple", first |-> "list", items |-> s, has_points |-> TRUE, points |-> <<>>]
      [] shape = "object_points" ->
            [kind |-> "object", first |-> "none", items |-> <<>>, has_points |-> TRUE, points |-> s]
      [] shape = "list" ->
            [kind |-> "list", first |-> "none", items |-> s, has_points |-> FALSE, points |-> <<>>]
      [] shape = "tuple_empty" ->
            [kind |-> "tuple", first |-> "none", items |-> <<>>, has_points |-> FALSE, points |-> <<>>]
      [] shape = "tuple_scalar" ->
            [kind |-> "tuple", first |-> "scalar", items |-> <<>>, has_points |-> FALSE, points |-> <<>>]
      [] OTHER ->
            [kind |-> "other", first |-> "none", items |-> <<>>, has_points |-> FALSE, points |-> <<>>]

NoResponse == MakeResponse("other", <<>>)

(***************************************************************************)
(* RetrieverAgent.get_chunks, after the store call returned.               *)
(***************************************************************************)
PyFloat(n) == [type |-> "float", v |-> n]
PyNone == [type |-> "NoneType", v |-> 0]
PyDict(c) == [type |-> "dict", content |-> c]
PyNoneP == [type |-> "NoneType", content |-> Absent]

\* the value read for the score: the default when the field is missing
score_of(p) ==
    CASE p.score = "absent" -> PyFloat(0)
      [] p.score = "null" -> PyNone
      [] p.score = "low" -> PyFloat(LowScore)
      [] OTHER -> PyFloat(FloatScore)

\* the value read for the payload: the default {} when the field is missing
payload_of(p) ==
    CASE p.payload = "absent" -> PyDict(Absent)
      [] p.payload = "null" -> PyNoneP
      [] p.payload = "content" -> PyDict("doc")
      [] OTHER -> PyDict(Absent)

\* the three branches that build a chunk, lines 54-74
recognized(p) == p.kind \in {"object", "dict", "tuple"}

chunk_of(p, idx) ==
    [id |-> IF p.id = "ok" THEN PointId ELSE idx,
     score |-> score_of(p),
     payload |-> payload_of(p)]

\* variant: a failing item ends the loop, the items after it are lost
RECURSIVE convert_points_abort(_, _)
convert_points_abort(points_list, idx) ==
    IF points_list = <<>>
    THEN <<>>
    ELSE LET point == Head(points_list)
         IN IF point.kind = "failing"
            THEN <<>>
            ELSE IF recognized(point)
                 THEN <<chunk_of(point, idx)>> \o convert_points_abort(Tail(points_list), idx + 1)
                 ELSE convert_points_abort(Tail(points_list), idx + 1)

\* the loop of lines 51-83: idx is the 0-based position in points_list
RECURSIVE convert_points(_, _)
convert_points(points_list, idx) ==
    IF points_list = <<>>
    THEN <<>>
    ELSE LET point == Head(points_list)
             rest == convert_points(Tail(points_list), idx + 1)
         IN IF point.kind = "failing"
            THEN rest                              \* except: continue
            ELSE IF recognized(point)
                 THEN <<chunk_of(point, idx)>> \o rest
                 ELSE rest                         \* unknown format: continue

\* variant: the points attribute is looked at before the tuple test
points_list_of_points_first(response) ==
    IF response.has_points
    THEN response.points
    ELSE IF response.kind = "tuple"
         THEN (IF response.first = "none" THEN <<>> ELSE response.items)
         ELSE IF response.kind = "list" THEN response.items ELSE <<>>

\* lines 33-48: the point collection of the response
points_list_of(response) ==
    IF response.kind = "tuple"
    THEN (IF response.first = "none" THEN <<>> ELSE response.items)
    ELSE IF response.has_points
         THEN response.points
         ELSE IF response.kind = "list" THEN response.items ELSE <<>>

\* len(points_list) of line 36 raises on a tuple whose first element has no length
shape_raises(response) == response.kind = "tuple" /\ response.first = "scalar"

\* the chunks get_chunks returns for a response the store delivered
get_chunks(response) ==
    IF shape_raises(response)
    THEN <<>>                                      \* outer except: return []
    ELSE convert_points(points_list_of(response), 0)

(***************************************************************************)
(* AgentState and the execute methods of the four agents.                  *)
(***************************************************************************)
AgentState(query) ==
    [query |-> query,
     sender |-> "user",
     receiver |-> "",
     refined_query |-> None,
     query_intent |-> None,
     query_complexity |-> None,
     requires_multi_hop |-> FALSE,
     retrieved_chunks |-> <<>>,
     synthesized_response |-> None,
     final_report |-> None,
     metadata |-> {}]

NoState == AgentState(None)

\* dict.get(key, default)
dict_get(f, default) == IF f.present THEN f.val ELSE default

\* metadata[key] = value on a dict held as a set of entries
dict_set(m, k, v) == {e \in m : e.key # k} \cup {[key |-> k, value |-> v]}

\* analysis.get raises AttributeError when analysis is not a dict
refiner_execute_raises(analysis) == analysis.kind # "object"

\* variant: the refined query is written over the query
QueryRefiner_execute_overwrites_query(st, a) ==
    [st EXCEPT
        !.query = dict_get(a.refined_query, st.query),
        !.refined_query = dict_get(a.refined_query, st.query),
        !.query_intent = dict_get(a.intent, "understand"),
        !.query_complexity = dict_get(a.complexity, "medium"),
        !.requires_multi_hop = dict_get(a.requires_multi_hop, FALSE),
        !.metadata = dict_set(st.metadata, "key_concepts",
                              dict_get(a.key_concepts, <<>>))]

\* QueryRefinerAgent.execute, lines 67-73
QueryRefiner_execute(st, analysis) ==
    [st EXCEPT
        !.refined_query = dict_get(analysis.refined_query, st.query),
        !.query_intent = dict_get(analysis.intent, "understand"),
        !.query_complexity = dict_get(analysis.complexity, "medium"),
        !.requires_multi_hop = dict_get(analysis.requires_multi_hop, FALSE),
        !.metadata = dict_set(st.metadata, "key_concepts",
                              dict_get(analysis.key_concepts, <<>>))]

\* variant: only a null refined_query falls back to the query
query_to_use_unless_null(st) ==
    IF st.refined_query = None THEN st.query ELSE st.refined_query

\* state.refined_query or state.query
query_to_use(st) ==
    IF st.refined_query \in {None, ""} THEN st.query ELSE st.refined_query

\* RetrieverAgent.execute, lines 113-117
Retriever_execute(st, raw_chunks) ==
    [st EXCEPT
        !.retrieved_chunks = raw_chunks,
        !.sender = "retriever",
        !.receiver = "synthesizer"]

\* chunk.get("payload", {}).get("content") raises when the payload is None
format_context_raises(chunks) ==
    \E i \in 1..Len(chunks) : chunks[i].payload.type # "dict"

\* SynthesizerAgent.format_context: one entry per chunk, tagged with its index
format_context(chunks) ==
    [i \in 1..Len(chunks) |->
        [idx |-> i - 1,
         text |-> IF chunks[i].payload.content = Absent
                  THEN None ELSE chunks[i].payload.content]]

\* variant: the Synthesizer also fills final_report
Synthesizer_execute_writes_report(st, response) ==
    [st EXCEPT
        !.synthesized_response = response,
        !.final_report = response,
        !.sender = "synthesizer",
        !.receiver = "reporter"]

\* SynthesizerAgent.execute, lines 37-41
Synthesizer_execute(st, response) ==
    [st EXCEPT
        !.synthesized_response = response,
        !.sender = "synthesizer",
        !.receiver = "reporter"]

\* variant: the Reporter starts from an empty metadata
Reporter_execute_clears_metadata(st, report) ==
    [st EXCEPT
        !.final_report = report,
        !.metadata = {},
        !.sender = "reporter",
        !.receiver = "user"]

\* ReporterAgent.execute, lines 30-34
Reporter_execute(st, report) ==
    [st EXCEPT
        !.final_report = report,
        !.sender = "reporter",
        !.receiver = "user"]

\* the texts the generative model may return to the Synthesizer and the Reporter
SynthTexts == {"", "answer"}
ReportTexts == {"", "report"}

(***************************************************************************)
(* AgentOrchestrator.build_graph: the nodes and the edges.                 *)
(***************************************************************************)
Nodes == {"refine_query", "retrieve_data", "synthesize_data", "generate_report"}

\* variant: the edge out of refine_query bypasses retrieve_data
Edges_skip_retrieve ==
    {<<"START", "refine_query">>,
     <<"refine_query", "synthesize_data">>,
     <<"retrieve_data", "synthesize_data">>,
     <<"synthesize_data", "generate_report">>,
     <<"generate_report", "END">>}

Edges ==
    {<<"START", "refine_query">>,
     <<"refine_query", "retrieve_data">>,
     <<"retrieve_data", "synthesize_data">>,
     <<"synthesize_data", "generate_report">>,
     <<"generate_report", "END">>}

\* the node the compiled graph runs after n
next_node(n) == CHOOSE m \in Nodes \cup {"END"} : <<n, m>> \in Edges

LlmNodes == {"refine_query", "synthesize_data", "generate_report"}

(***************************************************************************)
(* Several runs on one orchestrator: the AgentState instances live on a    *)
(* heap, each run holds a reference to the instance it was started with.   *)
(***************************************************************************)
EmptyHeap == [objs |-> <<>>, dicts |-> <<>>]

\* variant: one dict is the default of every instance
default_factory_dict_shared(h) == 1

\* metadata: field(default_factory=dict) builds a new dict for every instance
default_factory_dict(h) == Len(h.dicts) + 1

\* AgentState(query=query): the instance holds a reference to its metadata dict
new_AgentState(h, query) ==
    LET d == default_factory_dict(h)
    IN [objs |-> Append(h.objs, [AgentState(query) EXCEPT !.metadata = d]),
        dicts |-> IF d > Len(h.dicts) THEN Append(h.dicts, {}) ELSE h.dicts]

\* variant: run keeps the instance of the previous call and sets its query
initial_state_reused(h, query) ==
    IF h.objs = <<>>
    THEN [heap |-> new_AgentState(h, query), ref |-> 1]
    ELSE [heap |-> [h EXCEPT !.objs[1].query = query], ref |-> 1]

\* run, line 46: initial_state = AgentState(query=query)
initial_state(h, query) ==
    [heap |-> new_AgentState(h, query), ref |-> Len(h.objs) + 1]

\* the fields of the instance behind a reference, its metadata read through
deref(h, ref) ==
    [h.objs[ref] EXCEPT !.metadata = h.dicts[h.objs[ref].metadata]]

\* attribute assignments on the instance; metadata[key] = value writes the dict
assign(h, ref, st) ==
    [objs |-> [h.objs EXCEPT ![ref] = [st EXCEPT !.metadata = h.objs[ref].metadata]],
     dicts |-> [h.dicts EXCEPT ![h.objs[ref].metadata] = st.metadata]]

\* an answer of the model or of the store: it raised, or it returned val
Outcome(raises, val) == [raises |-> raises, val |-> val]

\* One call of run.  pos is where the coroutine stands: suspended in one of
\* its four awaits, returned ("END"), raised or cancelled.
NoRun ==
    [pos |-> "idle", query |-> None, ref |-> 0, trail |-> <<>>, calls |-> <<>>,
     error |-> "none", searched |-> None, refine_ans |-> Outcome(TRUE, NoText),
     response |-> Outcome(TRUE, NoResponse), synth_out |-> None, report_out |-> None,
     overlap |-> FALSE]

InFlight == {"await_refine", "await_search", "await_synth", "await_report"}

R(r, st) == [run |-> r, st |-> st]

raised(r, exc) == [r EXCEPT !.pos = "RAISED", !.error = exc]

\* a handler returned: the provenance labels it leaves behind
completed_stage(r, st) == [r EXCEPT !.trail = Append(@, <<st.sender, st.receiver>>)]

\* QueryRefinerAgent.execute up to the await of line 40
Refiner_begin(r, st) ==
    R([r EXCEPT !.pos = "await_refine", !.calls = Append(@, "llm:refine_query")], st)

\* RetrieverAgent.execute up to the await of line 21
Retriever_begin(r, st) ==
    R([r EXCEPT !.pos = "await_search", !.calls = @ \o <<"encode", "search">>,
                !.searched = query_to_use(st)], st)

\* ReporterAgent.execute up to the await of line 26
Reporter_begin(r, st) ==
    R([r EXCEPT !.pos = "await_report", !.calls = Append(@, "llm:generate_report")], st)

\* variant: without chunks the Synthesizer returns at once, no model call
Synthesizer_begin_skips_empty(r, st) ==
    IF st.retrieved_chunks = <<>>
    THEN LET st1 == Synthesizer_execute(st, "")
         IN Reporter_begin(completed_stage(r, st1), st1)
    ELSE IF format_context_raises(st.retrieved_chunks)
         THEN R(raised(r, "AttributeError"), st)
         ELSE R([r EXCEPT !.pos = "await_synth",
                          !.calls = Append(@, "llm:synthesize_data")], st)

\* SynthesizerAgent.execute up to the await of line 31
Synthesizer_begin(r, st) ==
    IF format_context_raises(st.retrieved_chunks)
    THEN R(raised(r, "AttributeError"), st)
    ELSE R([r EXCEPT !.pos = "await_synth",
                     !.calls = Append(@, "llm:synthesize_data")], st)

\* the compiled graph enters a node, or returns at END
enter(node, r, st) ==
    CASE node = "refine_query" -> Refiner_begin(r, st)
      [] node = "retrieve_data" -> Retriever_begin(r, st)
      [] node = "synthesize_data" -> Synthesizer_begin(r, st)
      [] node = "generate_report" -> Reporter_begin(r, st)
      [] OTHER -> R([r EXCEPT !.pos = "END"], st)

\* the Refiner's model call is over: parse, fill the state, go on to the next node
Refiner_resume(r, st, o) ==
    IF o.raises
    THEN R(raised(r, "LLMError"), st)
    ELSE LET a == analyze_query(st.query, o.val)
             r1 == [r EXCEPT !.refine_ans = o]
         IN IF refiner_execute_raises(a)
            THEN R(raised(r1, "AttributeError"), st)
            ELSE LET st1 == QueryRefiner_execute(st, a)
                 IN enter(next_node("refine_query"), completed_stage(r1, st1), st1)

\* variant: the chunks are stored in reverse order
Retriever_resume_reversed(r, st, o) ==
    LET raw == IF o.raises THEN <<>> ELSE get_chunks(o.val)
        st1 == Retriever_execute(st, [i \in 1..Len(raw) |-> raw[Len(raw) + 1 - i]])
    IN enter(next_node("retrieve_data"),
             completed_stage([r EXCEPT !.response = o], st1), st1)

\* query_points is over: get_chunks absorbs its failure, execute stores the chunks
Retriever_resume(r, st, o) ==
    LET st1 == Retriever_execute(st, IF o.raises THEN <<>> ELSE get_chunks(o.val))
    IN enter(next_node("retrieve_data"),
             completed_stage([r EXCEPT !.response = o], st1), st1)

\* the Synthesizer's model call is over
Synthesizer_resume(r, st, o) ==
    IF o.raises
    THEN R(raised(r, "LLMError"), st)
    ELSE LET st1 == Synthesizer_execute(st, o.val)
         IN enter(next_node("synthesize_data"),
                  completed_stage([r EXCEPT !.synth_out = o.val], st1), st1)

\* the Reporter's model call is over
Reporter_resume(r, st, o) ==
    IF o.raises
    THEN R(raised(r, "LLMError"), st)
    ELSE LET st1 == Reporter_execute(st, o.val)
         IN enter(next_node("generate_report"),
                  completed_stage([r EXCEPT !.report_out = o.val], st1), st1)

\* run(query): the new instance, and the graph up to its first await
start_run(h, query) ==
    LET i == initial_state(h, query)
        b == enter(next_node("START"), [NoRun EXCEPT !.query = query, !.ref = i.ref],
                   deref(i.heap, i.ref))
    IN [heap |-> assign(i.heap, i.ref, b.st), run |-> b.run]

(***************************************************************************)
(* State of the model.                                                     *)
(***************************************************************************)
VARIABLES
    pc,               \* "idle", a node, "END" (run returned) or "RAISED" (run raised)
    phase,            \* "ready": the node's handler has not run; "awaiting": suspended in its external call
    state,            \* the AgentState of the run
    run_query,        \* the argument of run
    started,          \* nodes whose handler was entered, in order
    completed,        \* nodes whose handler returned, in order
    llm_calls,        \* llm.ainvoke calls issued, per node
    encode_calls,     \* model.encode calls
    search_calls,     \* client.query_points calls issued
    search_log,       \* the texts searched for, in order
    error,            \* the exception run raised: "none", "LLMError", "AttributeError"
    raised_in,        \* the node whose handler raised it
    llm_raised,       \* the node whose model call raised, or "none"
    retrieval,        \* "none", "encode_raised", "search_raised", "ok"
    parse_outcome,    \* of the Refiner: "none", "mapping", "nonmapping", "fallback"
    parse_query,      \* SpecParse: the query given to analyze_query
    raw_text,         \* SpecParse: the response text
    analysis,         \* the value analyze_query returned (Spec: to the Refiner)
    parse_pc,         \* SpecParse: "start", "done"
    response,         \* SpecNormalize: the value query_points returned
    chunks,           \* SpecNormalize: the value get_chunks returned
    norm_pc,          \* SpecNormalize: "start", "done"
    runs,             \* SpecRuns, SpecSession: the calls of run, in call order
    heap,             \* the AgentState instances and metadata dicts of these calls
    stub,             \* the answers the model stub and the store have given, by input
    sess,             \* SpecSession: the interactive session of main.py
    uploader,         \* SpecUploader: one call of create_collection_if_not_exist
    upload,           \* SpecUpload: one call of upload_points
    registry          \* SpecRegistry: an AgentRegistry and the calls made on it

pipeVars ==
    <<pc, phase, state, run_query, started, completed, llm_calls, encode_calls,
      search_calls, search_log, error, raised_in, llm_raised, retrieval, parse_outcome>>
parseVars == <<parse_query, raw_text, analysis, parse_pc>>
normVars == <<response, chunks, norm_pc>>
runVars == <<runs, heap, stub, sess>>
toolVars == <<uploader, upload, registry>>
vars == <<pipeVars, parseVars, normVars, runVars, toolVars>>

PipeInit ==
    /\ pc = "idle"
    /\ phase = "ready"
    /\ state = NoState
    /\ run_query = None
    /\ started = <<>>
    /\ completed = <<>>
    /\ llm_calls = [n \in LlmNodes |-> 0]
    /\ encode_calls = 0
    /\ search_calls = 0
    /\ search_log = <<>>
    /\ error = "none"
    /\ raised_in = "none"
    /\ llm_raised = "none"
    /\ retrieval = "none"
    /\ parse_outcome = "none"

ParseIdle ==
    /\ parse_query = None
    /\ raw_text = NoText
    /\ analysis = NoJson
    /\ parse_pc = "off"

NormIdle ==
    /\ response = NoResponse
    /\ chunks = <<>>
    /\ norm_pc = "off"

\* the model and the store as deterministic stubs.  can: the answers each call
\* may get; said: the answers given so far, by input, none yet
NoStub ==
    [can |-> [refine |-> {}, store |-> {}, synth |-> {}, report |-> {}],
     said |-> [refine |-> {}, store |-> {}, synth |-> {}, report |-> {}]]

\* no session: run is called directly
SessOff ==
    [pc |-> "off", pq |-> 0, cur |-> 0, session_count |-> 0, animations |-> 0,
     displayed |-> {}, reported |-> {}, abandoned |-> {}, ended_by |-> "none"]

RunsIdle ==
    /\ runs = <<>>
    /\ heap = EmptyHeap
    /\ stub = NoStub
    /\ sess = SessOff

\* no call of create_collection_if_not_exist
UploaderOff ==
    [pc |-> "off", collection_name |-> None, client |-> "str", existing |-> {},
     store |-> {}, listing |-> <<>>, create_calls |-> <<>>, printed |-> <<>>]

\* no call of upload_points
UploadOff ==
    [pc |-> "off", points |-> <<>>, batch_size |-> 1, i |-> 0, calls |-> <<>>,
     replies |-> <<>>, results |-> <<>>, returned |-> None]

\* no registry
RegistryOff ==
    [pc |-> "off", agents |-> <<>>, log |-> <<>>, ncalls |-> 0,
     last |-> [op |-> "none", arg |-> None, raised |-> "none", result |-> None,
               before |-> <<>>]]

ToolsIdle ==
    /\ uploader = UploaderOff
    /\ upload = UploadOff
    /\ registry = RegistryOff

Init == PipeInit /\ ParseIdle /\ NormIdle /\ RunsIdle /\ ToolsIdle

(***************************************************************************)
(* AgentOrchestrator.run and the handlers of the nodes.                    *)
(***************************************************************************)
\* a handler returned normally: the graph moves to the next node
Advance(node, st) ==
    /\ state' = st
    /\ completed' = Append(completed, node)
    /\ pc' = next_node(node)
    /\ phase' = "ready"

\* a handler raised: ainvoke and run raise to the caller
Raise(node, exc) ==
    /\ pc' = "RAISED"
    /\ phase' = "ready"
    /\ error' = exc
    /\ raised_in' = node

\* run(query): initial_state = AgentState(query=query); graph.ainvoke(initial_state)
Run(query) ==
    /\ pc = "idle"
    /\ run_query' = query
    /\ state' = AgentState(query)
    /\ pc' = next_node("START")
    /\ UNCHANGED <<phase, started, completed, llm_calls, encode_calls, search_calls,
                   search_log, error, raised_in, llm_raised, retrieval, parse_outcome>>
    /\ UNCHANGED <<parseVars, normVars, runVars, toolVars>>

\* a handler issues its llm.ainvoke call and suspends
Invoke(node) ==
    /\ pc = node
    /\ phase = "ready"
    /\ started' = Append(started, node)
    /\ llm_calls' = [llm_calls EXCEPT ![node] = @ + 1]
    /\ phase' = "awaiting"

\* the llm.ainvoke call of a handler raises; no handler catches it
InvokeRaises(node) ==
    /\ pc = node
    /\ phase = "awaiting"
    /\ llm_raised' = node
    /\ Raise(node, "LLMError")

\* QueryRefinerAgent.execute up to the await of line 40
RefinerInvoke ==
    /\ Invoke("refine_query")
    /\ UNCHANGED <<pc, state, run_query, completed, encode_calls, search_calls, search_log,
                   error, raised_in, llm_raised, retrieval, parse_outcome>>
    /\ UNCHANGED <<parseVars, normVars, runVars, toolVars>>

\* variant: the model call sits inside the try block, its failure takes the fallback
RefinerRaise_masked ==
    /\ pc = "refine_query"
    /\ phase = "awaiting"
    /\ llm_raised' = "refine_query"
    /\ parse_outcome' = "fallback"
    /\ Advance("refine_query", QueryRefiner_execute(state, fallback_analysis(state.query)))
    /\ UNCHANGED <<run_query, started, llm_calls, encode_calls, search_calls, search_log,
                   error, raised_in, retrieval>>
    /\ UNCHANGED <<parseVars, normVars, runVars, toolVars>>

RefinerRaise ==
    /\ InvokeRaises("refine_query")
    /\ UNCHANGED <<state, run_query, started, completed, llm_calls, encode_calls,
                   search_calls, search_log, retrieval, parse_outcome>>
    /\ UNCHANGED <<parseVars, normVars, runVars, toolVars>>

\* the model answered: analyze_query parses, execute fills the state
RefinerReturn(text) ==
    /\ pc = "refine_query"
    /\ phase = "awaiting"
    /\ LET a == analyze_query(state.query, text)
       IN /\ parse_outcome' = IF parse_raises(text) THEN "fallback"
                              ELSE IF a.kind = "object" THEN "mapping" ELSE "nonmapping"
          /\ IF refiner_execute_raises(a)
             THEN /\ Raise("refine_query", "AttributeError")
                  /\ UNCHANGED <<state, completed>>
             ELSE /\ Advance("refine_query", QueryRefiner_execute(state, a))
                  /\ UNCHANGED <<error, raised_in>>
    /\ analysis' = analyze_query(state.query, text)
    /\ UNCHANGED <<run_query, started, llm_calls, encode_calls, search_calls, search_log,
                   llm_raised, retrieval>>
    /\ UNCHANGED <<parse_query, raw_text, parse_pc, normVars, runVars, toolVars>>

\* RetrieverAgent.execute when model.encode raises: get_chunks catches it and
\* returns [], no search is issued and execute completes
RetrieverEncodeRaise ==
    /\ pc = "retrieve_data"
    /\ phase = "ready"
    /\ started' = Append(started, "retrieve_data")
    /\ encode_calls' = encode_calls + 1
    /\ retrieval' = "encode_raised"
    /\ Advance("retrieve_data", Retriever_execute(state, <<>>))
    /\ UNCHANGED <<run_query, llm_calls, search_calls, search_log, error, raised_in,
                   llm_raised, parse_outcome>>
    /\ UNCHANGED <<parseVars, normVars, runVars, toolVars>>

\* RetrieverAgent.execute up to the await of line 21: encode, then query_points
RetrieverSearch ==
    /\ pc = "retrieve_data"
    /\ phase = "ready"
    /\ started' = Append(started, "retrieve_data")
    /\ encode_calls' = encode_calls + 1
    /\ search_calls' = search_calls + 1
    /\ search_log' = Append(search_log, query_to_use(state))
    /\ phase' = "awaiting"
    /\ UNCHANGED <<pc, state, run_query, completed, llm_calls, error, raised_in,
                   llm_raised, retrieval, parse_outcome>>
    /\ UNCHANGED <<parseVars, normVars, runVars, toolVars>>

\* variant: the failure of query_points is not caught
RetrieverSearchRaise_propagates ==
    /\ pc = "retrieve_data"
    /\ phase = "awaiting"
    /\ retrieval' = "search_raised"
    /\ Raise("retrieve_data", "ConnectionError")
    /\ UNCHANGED <<state, completed, run_query, started, llm_calls, encode_calls,
                   search_calls, search_log, llm_raised, parse_outcome>>
    /\ UNCHANGED <<parseVars, normVars, runVars, toolVars>>

\* variant: a failed search is issued once more
RetrieverSearchRaise_retry ==
    /\ pc = "retrieve_data"
    /\ phase = "awaiting"
    /\ search_calls < 2
    /\ search_calls' = search_calls + 1
    /\ search_log' = Append(search_log, query_to_use(state))
    /\ retrieval' = "search_raised"
    /\ UNCHANGED <<pc, phase, state, completed, run_query, started, llm_calls, encode_calls,
                   error, raised_in, llm_raised, parse_outcome>>
    /\ UNCHANGED <<parseVars, normVars, runVars, toolVars>>

\* query_points raises: get_chunks catches it and returns []
RetrieverSearchRaise ==
    /\ pc = "retrieve_data"
    /\ phase = "awaiting"
    /\ retrieval' = "search_raised"
    /\ Advance("retrieve_data", Retriever_execute(state, <<>>))
    /\ UNCHANGED <<run_query, started, llm_calls, encode_calls, search_calls, search_log,
                   error, raised_in, llm_raised, parse_outcome>>
    /\ UNCHANGED <<parseVars, normVars, runVars, toolVars>>

\* query_points returns: get_chunks normalises, execute stores the chunks
RetrieverSearchReturn(resp) ==
    /\ pc = "retrieve_data"
    /\ phase = "awaiting"
    /\ retrieval' = "ok"
    /\ Advance("retrieve_data", Retriever_execute(state, get_chunks(resp)))
    /\ UNCHANGED <<run_query, started, llm_calls, encode_calls, search_calls, search_log,
                   error, raised_in, llm_raised, parse_outcome>>
    /\ UNCHANGED <<parseVars, normVars, runVars, toolVars>>

\* SynthesizerAgent.execute when format_context raises before the model call
SynthesizerContextRaise ==
    /\ pc = "synthesize_data"
    /\ phase = "ready"
    /\ format_context_raises(state.retrieved_chunks)
    /\ started' = Append(started, "synthesize_data")
    /\ Raise("synthesize_data", "AttributeError")
    /\ UNCHANGED <<state, run_query, completed, llm_calls, encode_calls, search_calls,
                   search_log, llm_raised, retrieval, parse_outcome>>
    /\ UNCHANGED <<parseVars, normVars, runVars, toolVars>>

\* SynthesizerAgent.execute up to the await of line 31
SynthesizerInvoke ==
    /\ ~format_context_raises(state.retrieved_chunks)
    /\ Invoke("synthesize_data")
    /\ UNCHANGED <<pc, state, run_query, completed, encode_calls, search_calls, search_log,
                   error, raised_in, llm_raised, retrieval, parse_outcome>>
    /\ UNCHANGED <<parseVars, normVars, runVars, toolVars>>

SynthesizerRaise ==
    /\ InvokeRaises("synthesize_data")
    /\ UNCHANGED <<state, run_query, started, completed, llm_calls, encode_calls,
                   search_calls, search_log, retrieval, parse_outcome>>
    /\ UNCHANGED <<parseVars, normVars, runVars, toolVars>>

SynthesizerReturn(content) ==
    /\ pc = "synthesize_data"
    /\ phase = "awaiting"
    /\ Advance("synthesize_data", Synthesizer_execute(state, content))
    /\ UNCHANGED <<run_query, started, llm_calls, encode_calls, search_calls, search_log,
                   error, raised_in, llm_raised, retrieval, parse_outcome>>
    /\ UNCHANGED <<parseVars, normVars, runVars, toolVars>>

\* ReporterAgent.execute up to the await of line 26
ReporterInvoke ==
    /\ Invoke("generate_report")
    /\ UNCHANGED <<pc, state, run_query, completed, encode_calls, search_calls, search_log,
                   error, raised_in, llm_raised, retrieval, parse_outcome>>
    /\ UNCHANGED <<parseVars, normVars, runVars, toolVars>>

ReporterRaise ==
    /\ InvokeRaises("generate_report")
    /\ UNCHANGED <<state, run_query, started, completed, llm_calls, encode_calls,
                   search_calls, search_log, retrieval, parse_outcome>>
    /\ UNCHANGED <<parseVars, normVars, runVars, toolVars>>

ReporterReturn(content) ==
    /\ pc = "generate_report"
    /\ phase = "awaiting"
    /\ Advance("generate_report", Reporter_execute(state, content))
    /\ UNCHANGED <<run_query, started, llm_calls, encode_calls, search_calls, search_log,
                   error, raised_in, llm_raised, retrieval, parse_outcome>>
    /\ UNCHANGED <<parseVars, normVars, runVars, toolVars>>

Next ==
    \/ \E q \in Queries : Run(q)
    \/ RefinerInvoke
    \/ RefinerRaise
    \/ \E text \in PipeTexts : RefinerReturn(text)
    \/ RetrieverEncodeRaise
    \/ RetrieverSearch
    \/ RetrieverSearchRaise
    \/ \E shape \in ItemShapes, n \in 0..MaxPipePoints :
            \E s \in [1..n -> PipeItems] : RetrieverSearchReturn(MakeResponse(shape, s))
    \/ \E shape \in EmptyShapes : RetrieverSearchReturn(MakeResponse(shape, <<>>))
    \/ SynthesizerContextRaise
    \/ SynthesizerInvoke
    \/ SynthesizerRaise
    \/ \E content \in SynthTexts : SynthesizerReturn(content)
    \/ ReporterInvoke
    \/ ReporterRaise
    \/ \E content \in ReportTexts : ReporterReturn(content)

Spec == Init /\ [][Next]_vars

(***************************************************************************)
(* SpecParse: the parse step of analyze_query on every response text.      *)
(***************************************************************************)
InitParse ==
    /\ PipeInit
    /\ ToolsIdle
    /\ NormIdle
    /\ RunsIdle
    /\ parse_query \in Queries
    /\ raw_text \in Texts
    /\ analysis = NoJson
    /\ parse_pc = "start"

\* lines 41-61 of analyze_query applied to the response
AnalyzeQueryParse ==
    /\ parse_pc = "start"
    /\ analysis' = analyze_query(parse_query, raw_text)
    /\ parse_pc' = "done"
    /\ UNCHANGED <<parse_query, raw_text, pipeVars, normVars, runVars, toolVars>>

NextParse == AnalyzeQueryParse

SpecParse == InitParse /\ [][NextParse]_vars

(***************************************************************************)
(* SpecNormalize: the normalisation of get_chunks on every response.       *)
(***************************************************************************)
InitNormalize ==
    /\ PipeInit
    /\ ToolsIdle
    /\ ParseIdle
    /\ RunsIdle
    /\ \/ \E shape \in ItemShapes, n \in 0..MaxPoints :
              \E s \in [1..n -> Items] : response = MakeResponse(shape, s)
       \/ \E shape \in EmptyShapes : response = MakeResponse(shape, <<>>)
    /\ chunks = <<>>
    /\ norm_pc = "start"

\* lines 28-86 of get_chunks applied to the response
NormalizeResponse ==
    /\ norm_pc = "start"
    /\ chunks' = get_chunks(response)
    /\ norm_pc' = "done"
    /\ UNCHANGED <<response, pipeVars, parseVars, runVars, toolVars>>

NextNormalize == NormalizeResponse

SpecNormalize == InitNormalize /\ [][NextNormalize]_vars

(***************************************************************************)
(* SpecRuns: several calls of run on one orchestrator.  Every call is a    *)
(* coroutine that runs from one await to the next without interruption;    *)
(* the calls interleave at their awaits.  The model stub and the store are *)
(* deterministic: a call with an input seen before gets the same answer.   *)
(***************************************************************************)
\* the records are all recognized, carry a score and are ranked by it
Ranked(items) ==
    /\ \A k \in 1..Len(items) : recognized(items[k]) /\ items[k].score \in {"ok", "low"}
    /\ \A k, l \in 1..Len(items) : k < l => score_of(items[k]).v >= score_of(items[l]).v

\* the texts the Refiner's model call may return: a fenced object with a
\* refined query, prose, a bare JSON array
RunTexts ==
    {[layout |-> <<FENCE, TAG_JSON, WS, BODY, WS, FENCE>>,
      body |-> [kind |-> "object",
                refined_query |-> JField(TRUE, "rq"),
                intent |-> JField(TRUE, "compare"),
                complexity |-> JField(FALSE, Absent),
                requires_multi_hop |-> JField(FALSE, FALSE),
                key_concepts |-> JField(TRUE, <<"k1", "k2">>)]],
     [layout |-> <<PROSE>>, body |-> NoJson],
     [layout |-> <<BODY>>, body |-> JsonScalar("array")]}

\* the responses of the store: two ranked records, a record with a null
\* payload first, an unknown item before a dict record, nothing
RunResponses ==
    {MakeResponse("object_points",
        <<[kind |-> "object", id |-> "ok", score |-> "ok", payload |-> "content"],
          [kind |-> "object", id |-> "ok", score |-> "low", payload |-> "content"]>>),
     MakeResponse("object_points",
        <<[kind |-> "object", id |-> "ok", score |-> "ok", payload |-> "null"],
          [kind |-> "object", id |-> "ok", score |-> "low", payload |-> "content"]>>),
     MakeResponse("list",
        <<[kind |-> "scalar", id |-> "absent", score |-> "absent", payload |-> "absent"],
          [kind |-> "dict", id |-> "ok", score |-> "low", payload |-> "empty"]>>),
     MakeResponse("list", <<>>)}

RefineOutcomes == {Outcome(TRUE, NoText)} \cup {Outcome(FALSE, t) : t \in RunTexts}
StoreOutcomes == {Outcome(TRUE, NoResponse)} \cup {Outcome(FALSE, x) : x \in RunResponses}
\* the model stub raises or returns a non-empty text
SynthOutcomes == {Outcome(TRUE, "")} \cup {Outcome(FALSE, t) : t \in SynthTexts \ {""}}
ReportOutcomes == {Outcome(TRUE, "")} \cup {Outcome(FALSE, t) : t \in ReportTexts \ {""}}

\* the answers a call with this input may get: the one given before, else any
answers(memo, key, all) ==
    IF \E e \in memo : e.key = key THEN {e.out : e \in {x \in memo : x.key = key}} ELSE all

remember(memo, key, o) == memo \cup {[key |-> key, out |-> o]}

\* what the prompts of the Synthesizer and of the Reporter are built from
synth_prompt(st) == [query |-> st.query, context |-> format_context(st.retrieved_chunks)]
report_prompt(st) == [query |-> st.query, synthesis |-> st.synthesized_response]

\* the event loop runs coroutines: always when run is called directly, and
\* inside a session while the session coroutine is suspended in an await
LoopRuns == sess.pc \in {"off", "processing"}

\* coroutine i ran to its next await, or to its end
Resumed(i, res) ==
    /\ heap' = assign(heap, runs[i].ref, res.st)
    /\ runs' = [runs EXCEPT ![i] =
                  [res.run EXCEPT !.overlap =
                      @ \/ \E j \in DOMAIN runs : j # i /\ runs[j].pos \in InFlight]]

\* orchestrator.run(query) is called: the coroutine runs up to its first await
Call(query) ==
    /\ sess.pc = "off"
    /\ Len(runs) < MaxRuns
    /\ LET s == start_run(heap, query)
       IN /\ heap' = s.heap
          /\ runs' = Append(runs, [s.run EXCEPT !.overlap =
                                      \E j \in DOMAIN runs : runs[j].pos \in InFlight])
    /\ UNCHANGED <<stub, sess, pipeVars, parseVars, normVars, toolVars>>

\* the model answers the Refiner of call i
RefineReturns(i) ==
    /\ LoopRuns
    /\ runs[i].pos = "await_refine"
    /\ LET st == deref(heap, runs[i].ref)
       IN \E o \in answers(stub.said.refine, st.query, stub.can.refine) :
             /\ stub' = [stub EXCEPT !.said.refine = remember(@, st.query, o)]
             /\ Resumed(i, Refiner_resume(runs[i], st, o))
    /\ UNCHANGED <<sess, pipeVars, parseVars, normVars, toolVars>>

\* the store answers the Retriever of call i
SearchReturns(i) ==
    /\ LoopRuns
    /\ runs[i].pos = "await_search"
    /\ \E o \in answers(stub.said.store, runs[i].searched, stub.can.store) :
          /\ stub' = [stub EXCEPT !.said.store = remember(@, runs[i].searched, o)]
          /\ Resumed(i, Retriever_resume(runs[i], deref(heap, runs[i].ref), o))
    /\ UNCHANGED <<sess, pipeVars, parseVars, normVars, toolVars>>

\* the model answers the Synthesizer of call i
SynthReturns(i) ==
    /\ LoopRuns
    /\ runs[i].pos = "await_synth"
    /\ LET st == deref(heap, runs[i].ref)
       IN \E o \in answers(stub.said.synth, synth_prompt(st), stub.can.synth) :
             /\ stub' = [stub EXCEPT !.said.synth = remember(@, synth_prompt(st), o)]
             /\ Resumed(i, Synthesizer_resume(runs[i], st, o))
    /\ UNCHANGED <<sess, pipeVars, parseVars, normVars, toolVars>>

\* the model answers the Reporter of call i
ReportReturns(i) ==
    /\ LoopRuns
    /\ runs[i].pos = "await_report"
    /\ LET st == deref(heap, runs[i].ref)
       IN \E o \in answers(stub.said.report, report_prompt(st), stub.can.report) :
             /\ stub' = [stub EXCEPT !.said.report = remember(@, report_prompt(st), o)]
             /\ Resumed(i, Reporter_resume(runs[i], st, o))
    /\ UNCHANGED <<sess, pipeVars, parseVars, normVars, toolVars>>

NextRuns ==
    \/ \E q \in Queries : Call(q)
    \/ \E i \in DOMAIN runs : RefineReturns(i)
    \/ \E i \in DOMAIN runs : SearchReturns(i)
    \/ \E i \in DOMAIN runs : SynthReturns(i)
    \/ \E i \in DOMAIN runs : ReportReturns(i)

\* the orchestrator is built; the stubs may give any of the answers above
InitRuns ==
    /\ PipeInit
    /\ ToolsIdle
    /\ ParseIdle
    /\ NormIdle
    /\ runs = <<>>
    /\ heap = EmptyHeap
    /\ stub = [NoStub EXCEPT !.can = [refine |-> RefineOutcomes, store |-> StoreOutcomes,
                                      synth |-> SynthOutcomes, report |-> ReportOutcomes]]
    /\ sess = SessOff

SpecRuns == InitRuns /\ [][NextRuns]_vars

\* the coroutine of call r resumed with the answers r received, no other call
\* being served
RECURSIVE run_alone(_, _, _)
run_alone(r, st, got) ==
    CASE r.pos = "await_refine" ->
            LET x == Refiner_resume(r, st, got.refine_ans) IN run_alone(x.run, x.st, got)
      [] r.pos = "await_search" ->
            LET x == Retriever_resume(r, st, got.response) IN run_alone(x.run, x.st, got)
      [] r.pos = "await_synth" ->
            LET x == Synthesizer_resume(r, st,
                        IF got.synth_out = None THEN Outcome(TRUE, "")
                        ELSE Outcome(FALSE, got.synth_out))
            IN run_alone(x.run, x.st, got)
      [] r.pos = "await_report" ->
            LET x == Reporter_resume(r, st,
                        IF got.report_out = None THEN Outcome(TRUE, "")
                        ELSE Outcome(FALSE, got.report_out))
            IN run_alone(x.run, x.st, got)
      [] OTHER -> R(r, st)

\* run(r.query) on an orchestrator that serves no other call
Solo(r) ==
    LET s == start_run(EmptyHeap, r.query)
    IN run_alone(s.run, deref(s.heap, s.run.ref), r)

(***************************************************************************)
(* SpecSession: interactive_mode of main.py.  The session coroutine reads  *)
(* a query, and process_query starts the pipeline as a task, sleeps        *)
(* through four simulated progress steps and then awaits the task.  The    *)
(* task runs while the session coroutine is suspended.                     *)
(*   sess.pc  "prompt": blocked in input(); "processing": suspended in an  *)
(*            await of process_query; "exited": the loop was left by       *)
(*            quit; "cancelled": CancelledError left interactive_mode      *)
(*   sess.pq  1..4: in the asyncio.sleep of that progress step;            *)
(*            5: in await result_task                                     *)
(***************************************************************************)
ProgressSteps == 4
AwaitingResult == ProgressSteps + 1

\* the answers inside a session: the Refiner's model call raises or returns
\* the fenced object, the store fails or returns the two ranked records, the
\* other two model calls return their text
SessionAnswers ==
    [refine |-> {o \in RefineOutcomes : o.raises \/ o.val.layout[1] = FENCE},
     store |-> {o \in StoreOutcomes :
                   o.raises \/ (Ranked(points_list_of(o.val)) /\ Len(get_chunks(o.val)) = 2)},
     synth |-> {o \in SynthOutcomes : ~o.raises},
     report |-> {o \in ReportOutcomes : ~o.raises}]

InitSession ==
    /\ PipeInit
    /\ ToolsIdle
    /\ ParseIdle
    /\ NormIdle
    /\ runs = <<>>
    /\ heap = EmptyHeap
    /\ stub = [NoStub EXCEPT !.can = SessionAnswers]
    /\ sess = [SessOff EXCEPT !.pc = "prompt"]

\* asyncio.run after the session coroutine is over: every task left is cancelled
cancel_all_tasks(rs) ==
    [i \in DOMAIN rs |-> IF rs[i].pos \in InFlight THEN [rs[i] EXCEPT !.pos = "CANCELLED"]
                         ELSE rs[i]]

\* back in input(): process_query is over for the current request
at_prompt(se) == [se EXCEPT !.pc = "prompt", !.pq = 0, !.cur = 0]

\* a query is entered: lines 211-231, and process_query up to its first sleep;
\* the task runs to its first await as soon as the session coroutine suspends
Ask(query) ==
    /\ sess.pc = "prompt"
    /\ sess.session_count < MaxRuns
    /\ LET s == start_run(heap, query)
       IN /\ heap' = s.heap
          /\ runs' = Append(runs, [s.run EXCEPT !.overlap =
                                      \E j \in DOMAIN runs : runs[j].pos \in InFlight])
    /\ sess' = [sess EXCEPT !.pc = "processing", !.pq = 1, !.cur = Len(runs) + 1,
                            !.session_count = @ + 1, !.animations = @ + 1]
    /\ UNCHANGED <<stub, pipeVars, parseVars, normVars, toolVars>>

\* quit, exit or q: the loop is left, asyncio.run cancels the tasks still pending
Quit ==
    /\ sess.pc = "prompt"
    /\ sess' = [sess EXCEPT !.pc = "exited", !.ended_by = "quit"]
    /\ runs' = cancel_all_tasks(runs)
    /\ UNCHANGED <<heap, stub, pipeVars, parseVars, normVars, toolVars>>

\* one simulated progress step is slept through; after the last, await result_task
Sleep ==
    /\ sess.pc = "processing"
    /\ sess.pq \in 1..ProgressSteps
    /\ sess' = [sess EXCEPT !.pq = @ + 1]
    /\ UNCHANGED <<runs, heap, stub, pipeVars, parseVars, normVars, toolVars>>

\* await result_task returns the state: animation.stop(), the report is printed
ShowResult ==
    /\ sess.pc = "processing"
    /\ sess.pq = AwaitingResult
    /\ runs[sess.cur].pos = "END"
    /\ sess' = [at_prompt(sess) EXCEPT !.animations = @ - 1,
                                       !.displayed = @ \cup {sess.cur}]
    /\ UNCHANGED <<runs, heap, stub, pipeVars, parseVars, normVars, toolVars>>

\* variant: the exception of the pipeline leaves interactive_mode
ShowError_exits ==
    /\ sess.pc = "processing"
    /\ sess.pq = AwaitingResult
    /\ runs[sess.cur].pos = "RAISED"
    /\ sess' = [sess EXCEPT !.pc = "exited", !.pq = 0, !.cur = 0, !.ended_by = "error",
                            !.animations = @ - 1, !.reported = @ \cup {sess.cur}]
    /\ runs' = cancel_all_tasks(runs)
    /\ UNCHANGED <<heap, stub, pipeVars, parseVars, normVars, toolVars>>

\* await result_task raises the exception of the pipeline: process_query stops
\* the animation, prints the error and re-raises (lines 184-187);
\* interactive_mode prints it and loops (lines 238-240)
ShowError ==
    /\ sess.pc = "processing"
    /\ sess.pq = AwaitingResult
    /\ runs[sess.cur].pos = "RAISED"
    /\ sess' = [at_prompt(sess) EXCEPT !.animations = @ - 1,
                                       !.reported = @ \cup {sess.cur}]
    /\ UNCHANGED <<runs, heap, stub, pipeVars, parseVars, normVars, toolVars>>

\* KeyboardInterrupt is raised in process_query between two progress steps:
\* except Exception does not catch it, interactive_mode does (line 236) and
\* loops; nothing stops the animation or cancels result_task
Interrupt ==
    /\ sess.pc = "processing"
    /\ sess.pq \in 1..ProgressSteps
    /\ sess' = [at_prompt(sess) EXCEPT !.abandoned = @ \cup {sess.cur}]
    /\ UNCHANGED <<runs, heap, stub, pipeVars, parseVars, normVars, toolVars>>

\* the session coroutine is cancelled in the await it is suspended in:
\* CancelledError passes both except Exception clauses and leaves
\* interactive_mode; awaiting result_task hands the cancellation to the task,
\* and asyncio.run cancels every task still pending
Cancel ==
    /\ sess.pc = "processing"
    /\ sess' = [sess EXCEPT !.pc = "cancelled", !.pq = 0, !.cur = 0,
                            !.ended_by = "cancel", !.abandoned = @ \cup {sess.cur}]
    /\ runs' = cancel_all_tasks(runs)
    /\ UNCHANGED <<heap, stub, pipeVars, parseVars, normVars, toolVars>>

NextSession ==
    \/ \E q \in Queries : Ask(q)
    \/ Quit
    \/ Sleep
    \/ ShowResult
    \/ ShowError
    \/ Interrupt
    \/ Cancel
    \/ \E i \in DOMAIN runs : RefineReturns(i)
    \/ \E i \in DOMAIN runs : SearchReturns(i)
    \/ \E i \in DOMAIN runs : SynthReturns(i)
    \/ \E i \in DOMAIN runs : ReportReturns(i)

SpecSession == InitSession /\ [][NextSession]_vars

(***************************************************************************)
(* QdrantUploader.create_collection_if_not_exist (SpecUploader).           *)
(***************************************************************************)
CollectionNames == {"docs", "notes", "papers"}

\* what the client's listing holds: CollectionDescription objects with a name
\* attribute (read as col.name by collection_exists and by vdb_client), or
\* plain names
ListingTypes == {"CollectionDescription", "str"}

\* Python ==: a str equals a str of the same characters and no object of
\* another class
py_eq(name, entry) == entry.type = "str" /\ entry.name = name

\* Python `name in entries` on a list
py_in(name, entries) == \E k \in 1..Len(entries) : py_eq(name, entries[k])

\* the listings of the store's collections, in any order
Listings(store, type) ==
    {[k \in 1..Cardinality(store) |-> [type |-> type, name |-> f[k]]] :
        f \in {g \in [1..Cardinality(store) -> store] :
                  \A a, b \in 1..Cardinality(store) : g[a] = g[b] => a = b}}

InitUploader ==
    /\ PipeInit
    /\ ParseIdle
    /\ NormIdle
    /\ RunsIdle
    /\ upload = UploadOff
    /\ registry = RegistryOff
    /\ \E name \in CollectionNames, store \in SUBSET CollectionNames, type \in ListingTypes :
          uploader = [UploaderOff EXCEPT !.pc = "start", !.collection_name = name,
                                         !.client = type, !.existing = store,
                                         !.store = store]

\* line 38: the listing arrives
GetCollections ==
    /\ uploader.pc = "start"
    /\ \E l \in Listings(uploader.store, uploader.client) :
          uploader' = [uploader EXCEPT !.pc = "listed", !.listing = l]
    /\ UNCHANGED <<upload, registry, pipeVars, parseVars, normVars, runVars>>

\* line 38 raises: outside the try, the exception leaves the method
GetCollectionsRaises ==
    /\ uploader.pc = "start"
    /\ uploader' = [uploader EXCEPT !.pc = "raised"]
    /\ UNCHANGED <<upload, registry, pipeVars, parseVars, normVars, runVars>>

\* line 39 is false: the name is found in the listing, nothing is created
SkipCreate ==
    /\ uploader.pc = "listed"
    /\ py_in(uploader.collection_name, uploader.listing)
    /\ uploader' = [uploader EXCEPT !.pc = "done"]
    /\ UNCHANGED <<upload, registry, pipeVars, parseVars, normVars, runVars>>

\* lines 39-44: the name is not found, create_collection is called and succeeds
CreateCollection ==
    /\ uploader.pc = "listed"
    /\ ~py_in(uploader.collection_name, uploader.listing)
    /\ uploader.collection_name \notin uploader.store
    /\ uploader' = [uploader EXCEPT !.pc = "done",
                                    !.create_calls = Append(@, uploader.collection_name),
                                    !.store = @ \cup {uploader.collection_name}]
    /\ UNCHANGED <<upload, registry, pipeVars, parseVars, normVars, runVars>>

\* lines 39-46: create_collection is called and raises (the store rejects a
\* name it already has); the exception is printed and dropped
CreateCollectionRaises ==
    /\ uploader.pc = "listed"
    /\ ~py_in(uploader.collection_name, uploader.listing)
    /\ uploader' = [uploader EXCEPT !.pc = "done",
                                    !.create_calls = Append(@, uploader.collection_name),
                                    !.printed = Append(@, "Error creating collection")]
    /\ UNCHANGED <<upload, registry, pipeVars, parseVars, normVars, runVars>>

NextUploader ==
    \/ GetCollections
    \/ GetCollectionsRaises
    \/ SkipCreate
    \/ CreateCollection
    \/ CreateCollectionRaises

SpecUploader == InitUploader /\ [][NextUploader]_vars

(***************************************************************************)
(* AsyncQdrantManager.upload_points (SpecUpload).                          *)
(***************************************************************************)
\* the status of the UpdateResult an upsert returns
UpdateStatuses == {"acknowledged", "completed"}

\* variant: a batch starts at the last point of the one before it
batch_of_overlapping(points, i, batch_size) ==
    SubSeq(points, IF i = 0 THEN 1 ELSE i, Min({i + batch_size, Len(points)}))

\* points[i:i + batch_size], i counted from 0 (line 221)
batch_of(points, i, batch_size) ==
    SubSeq(points, i + 1, Min({i + batch_size, Len(points)}))

InitUpload ==
    /\ PipeInit
    /\ ParseIdle
    /\ NormIdle
    /\ RunsIdle
    /\ uploader = UploaderOff
    /\ registry = RegistryOff
    /\ \E n \in 0..MaxUploadPoints, batch_size \in 0..MaxBatchSize :
          upload = [UploadOff EXCEPT !.pc = "loop", !.points = [k \in 1..n |-> k],
                                     !.batch_size = batch_size]

\* range(0, len(points), 0) raises ValueError: logged and re-raised (232-234)
RangeRaises ==
    /\ upload.pc = "loop"
    /\ upload.batch_size = 0
    /\ upload' = [upload EXCEPT !.pc = "raised"]
    /\ UNCHANGED <<uploader, registry, pipeVars, parseVars, normVars, runVars>>

\* lines 220-222: the next batch is cut and sent
Upsert ==
    /\ upload.pc = "loop"
    /\ upload.batch_size > 0
    /\ upload.i < Len(upload.points)
    /\ upload' = [upload EXCEPT
          !.pc = "await_upsert",
          !.calls = Append(@, batch_of(upload.points, upload.i, upload.batch_size))]
    /\ UNCHANGED <<uploader, registry, pipeVars, parseVars, normVars, runVars>>

\* lines 222-228: the upsert returns its status, which is appended to results;
\* range moves to the next start
UpsertReturns(status) ==
    /\ upload.pc = "await_upsert"
    /\ upload' = [upload EXCEPT !.pc = "loop",
                                !.replies = Append(@, status),
                                !.results = Append(@, status),
                                !.i = @ + upload.batch_size]
    /\ UNCHANGED <<uploader, registry, pipeVars, parseVars, normVars, runVars>>

\* the upsert raises: logged and re-raised (232-234)
UpsertRaises ==
    /\ upload.pc = "await_upsert"
    /\ upload' = [upload EXCEPT !.pc = "raised"]
    /\ UNCHANGED <<uploader, registry, pipeVars, parseVars, normVars, runVars>>

\* the range is exhausted: results is returned (line 231)
UploadReturn ==
    /\ upload.pc = "loop"
    /\ upload.batch_size > 0
    /\ upload.i >= Len(upload.points)
    /\ upload' = [upload EXCEPT !.pc = "returned", !.returned = upload.results]
    /\ UNCHANGED <<uploader, registry, pipeVars, parseVars, normVars, runVars>>

NextUpload ==
    \/ RangeRaises
    \/ Upsert
    \/ \E status \in UpdateStatuses : UpsertReturns(status)
    \/ UpsertRaises
    \/ UploadReturn

SpecUpload == InitUpload /\ [][NextUpload]_vars

(***************************************************************************)
(* AgentRegistry (SpecRegistry).  _agents is a dict: its entries are kept  *)
(* in insertion order, one per key.                                        *)
(***************************************************************************)
AgentIds == {"a1", "a2"}

AgentRoles == {"r1", "r2"}

\* AgentSpec(id, role), the other fields at their defaults
AgentSpecs == {[id |-> id, role |-> role] : id \in AgentIds, role \in AgentRoles}

\* `id in self._agents`
has_key(agents, id) == \E k \in 1..Len(agents) : agents[k].id = id

\* self._agents[id] for a key that is there
lookup(agents, id) == agents[CHOOSE k \in 1..Len(agents) : agents[k].id = id]

\* variant: register assigns without the test, so a later spec replaces the
\* one stored under its id
register_overwrites(agents, spec) ==
    [raised |-> "none",
     agents |-> IF has_key(agents, spec.id)
                THEN [k \in 1..Len(agents) |->
                         IF agents[k].id = spec.id THEN spec ELSE agents[k]]
                ELSE Append(agents, spec)]

\* AgentRegistry.register, lines 26-30
register(agents, spec) ==
    IF has_key(agents, spec.id)
    THEN [raised |-> "ValueError", agents |-> agents]
    ELSE [raised |-> "none", agents |-> Append(agents, spec)]

\* AgentRegistry.get, lines 32-36
get(agents, id) ==
    IF has_key(agents, id)
    THEN [raised |-> "none", result |-> lookup(agents, id)]
    ELSE [raised |-> "KeyError", result |-> None]

\* AgentRegistry.list, lines 37-38
list(agents) == [k \in 1..Len(agents) |-> agents[k].id]

InitRegistry ==
    /\ PipeInit
    /\ ParseIdle
    /\ NormIdle
    /\ RunsIdle
    /\ uploader = UploaderOff
    /\ upload = UploadOff
    /\ registry = [RegistryOff EXCEPT !.pc = "ready"]

Register(spec) ==
    /\ registry.pc = "ready"
    /\ registry.ncalls < MaxCalls
    /\ registry' = [registry EXCEPT
          !.agents = register(registry.agents, spec).agents,
          !.log = Append(@, spec),
          !.ncalls = @ + 1,
          !.last = [op |-> "register", arg |-> spec,
                    raised |-> register(registry.agents, spec).raised,
                    result |-> None, before |-> registry.agents]]
    /\ UNCHANGED <<uploader, upload, pipeVars, parseVars, normVars, runVars>>

Get(id) ==
    /\ registry.pc = "ready"
    /\ registry.ncalls < MaxCalls
    /\ registry' = [registry EXCEPT
          !.ncalls = @ + 1,
          !.last = [op |-> "get", arg |-> id,
                    raised |-> get(registry.agents, id).raised,
                    result |-> get(registry.agents, id).result,
                    before |-> registry.agents]]
    /\ UNCHANGED <<uploader, upload, pipeVars, parseVars, normVars, runVars>>

List ==
    /\ registry.pc = "ready"
    /\ registry.ncalls < MaxCalls
    /\ registry' = [registry EXCEPT
          !.ncalls = @ + 1,
          !.last = [op |-> "list", arg |-> None, raised |-> "none",
                    result |-> list(registry.agents), before |-> registry.agents]]
    /\ UNCHANGED <<uploader, upload, pipeVars, parseVars, normVars, runVars>>

NextRegistry ==
    \/ \E spec \in AgentSpecs : Register(spec)
    \/ \E id \in AgentIds : Get(id)
    \/ List

SpecRegistry == InitRegistry /\ [][NextRegistry]_vars

(***************************************************************************)
(* Properties.                                                             *)
(***************************************************************************)
StageOrder == <<"refine_query", "retrieve_data", "synthesize_data", "generate_report">>

IsPrefix(s, t) == Len(s) <= Len(t) /\ s = SubSeq(t, 1, Len(s))

Range(s) == {s[i] : i \in 1..Len(s)}

\* C1: the handlers are entered and left in the order refine_query,
\* retrieve_data, synthesize_data, generate_report, each at most once and none
\* before the one before it returned; run returns (END) only when all four
\* have returned, generate_report last.
C1_StagesInOrder ==
    /\ IsPrefix(started, StageOrder)
    /\ IsPrefix(completed, StageOrder)
    /\ Len(completed) <= Len(started)
    /\ Len(started) <= Len(completed) + 1
    /\ (pc \in Nodes => pc = StageOrder[Len(completed) + 1])
    /\ (pc = "END" => started = StageOrder /\ completed = StageOrder)

C1_Witness == pc = "END" /\ completed = StageOrder

\* C2: when model.encode or query_points raised, retrieved_chunks is [] once the
\* Retriever returned, the Synthesizer can issue its call, and run raises only
\* if a generative-model call raised; a run that returned has run
\* generate_report.
C2_RetrievalFailureAbsorbed ==
    retrieval \in {"encode_raised", "search_raised"} =>
        /\ "retrieve_data" \in Range(completed)
        /\ state.retrieved_chunks = <<>>
        /\ (pc = "synthesize_data" /\ phase = "ready" => ENABLED SynthesizerInvoke)
        /\ (llm_raised = "none" => pc # "RAISED" /\ error = "none")
        /\ (pc = "END" => "generate_report" \in Range(completed))

C2_Witness ==
    /\ retrieval = "search_raised"
    /\ pc = "END"
    /\ state.retrieved_chunks = <<>>
    /\ state.final_report = "report"

\* C3: when the Refiner's response failed to parse, the Refiner leaves
\* refined_query = query, requires_multi_hop = False, query_intent =
\* "understand", query_complexity = "medium" and metadata.key_concepts = [query].
C3_ParseFailureIsNoOp ==
    parse_outcome = "fallback" =>
        /\ "refine_query" \in Range(completed)
        /\ state.query = run_query
        /\ state.refined_query = run_query
        /\ state.requires_multi_hop = FALSE
        /\ state.query_intent = "understand"
        /\ state.query_complexity = "medium"
        /\ state.metadata = {[key |-> "key_concepts", value |-> <<run_query>>]}

C3_Witness ==
    /\ parse_outcome = "fallback"
    /\ pc = "retrieve_data"
    /\ state.refined_query = run_query

\* C4: the parse step hands the Refiner a mapping or a parse failure, never
\* another value, and the Refiner does not raise on any response text.
C4_ParseYieldsMappingOrFailure ==
    /\ parse_outcome \in {"none", "mapping", "fallback"}
    /\ ~(pc = "RAISED" /\ raised_in = "refine_query" /\ error = "AttributeError")

\* the kinds of malformed text: JSON-like text without a valid value, prose
\* around the value without a fence, a fence with another tag than json
MissingBraces(t) ==
    /\ ~HasBody(t.layout)
    /\ \E i \in 1..Len(t.layout) : t.layout[i] = BADJSON

ExtraProse(t) ==
    /\ \A i \in 1..Len(t.layout) : t.layout[i] # FENCE
    /\ \E i \in 1..Len(t.layout) : t.layout[i] = PROSE

WrongFenceTag(t) ==
    /\ \E i \in 1..Len(t.layout) : t.layout[i] = FENCE
    /\ LET i == Min({j \in 1..Len(t.layout) : t.layout[j] = FENCE})
       IN i < Len(t.layout) /\ t.layout[i + 1] = TAG_OTHER
    /\ \A i \in 1..(Len(t.layout) - 1) :
          ~(t.layout[i] = FENCE /\ t.layout[i + 1] = TAG_JSON)

Malformed(t) == MissingBraces(t) \/ ExtraProse(t) \/ WrongFenceTag(t)

ProbeTexts ==
    {[layout |-> <<PROSE>>, body |-> NoJson], [layout |-> <<BADJSON>>, body |-> NoJson]}

C6_RefinedQueryNonNull ==
    "refine_query" \in Range(completed) => state.refined_query # None

\* the items of a response of one of the three shapes
InputItems(r) == IF r.kind = "object" THEN r.points ELSE r.items

ThreeShapes(r) ==
    \/ r.kind = "list"
    \/ r.kind = "tuple" /\ r.first = "list"
    \/ r.kind = "object" /\ r.has_points

IsItemShape(p) == p.kind \in {"object", "dict", "tuple"}

\* C7: for a list, a tuple wrapping a list or an object with points, the
\* output has one record per recognized item, in input order: its length is the
\* item count minus the unrecognized or failing items, and the k-th record is
\* the record of the k-th recognized item.
C7_OneRecordPerItemInOrder ==
    norm_pc = "done" /\ ThreeShapes(response) =>
        LET items == InputItems(response)
            rec == {i \in 1..Len(items) : IsItemShape(items[i])}
        IN /\ Len(chunks) = Len(items) - Cardinality((1..Len(items)) \ rec)
           /\ \E f \in [1..Len(chunks) -> 1..Len(items)] :
                /\ \A j, k \in 1..Len(chunks) : j < k => f[j] < f[k]
                /\ {f[k] : k \in 1..Len(chunks)} = rec
                /\ \A k \in 1..Len(chunks) : chunks[k] = chunk_of(items[f[k]], f[k] - 1)

C7_Witness ==
    /\ norm_pc = "done"
    /\ response.kind = "object"
    /\ Len(response.points) = 2
    /\ response.points[1].kind = "failing"
    /\ response.points[2].kind = "dict"
    /\ response.points[2].id = "absent"
    /\ Len(chunks) = 1
    /\ chunks[1].id = 1

\* C8: every record of retrieved_chunks has a float score and a mapping payload.
C8_ChunksAreCanonical ==
    \A i \in 1..Len(state.retrieved_chunks) :
        /\ state.retrieved_chunks[i].score.type = "float"
        /\ state.retrieved_chunks[i].payload.type = "dict"

\* C9: when the model call of the Refiner, the Synthesizer or the Reporter
\* raised, run has raised that error from that stage, the stage did not
\* return, no later stage was entered, and neither the failed stage's output
\* nor final_report was set.
C9_ModelFailurePropagates ==
    llm_raised # "none" =>
        /\ pc = "RAISED"
        /\ error = "LLMError"
        /\ raised_in = llm_raised
        /\ started[Len(started)] = llm_raised
        /\ llm_raised \notin Range(completed)
        /\ state.final_report = None
        /\ (llm_raised = "refine_query" => state.refined_query = None)
        /\ (llm_raised = "synthesize_data" => state.synthesized_response = None)

C9_Witness ==
    /\ llm_raised = "refine_query"
    /\ pc = "RAISED"
    /\ state.final_report = None

\* C10 as stated: no call is issued twice, and a run that returned has made
\* one model call per model stage and one search.
C10_ThreeModelCallsOneSearch ==
    /\ \A n \in LlmNodes : llm_calls[n] <= 1
    /\ search_calls <= 1
    /\ (pc = "END" => (\A n \in LlmNodes : llm_calls[n] = 1) /\ search_calls = 1)

\* C10 as amended: no call is issued twice, also not after it failed; a run
\* that returned has made one model call per model stage, one encode call and
\* one search, except that it has made no search when encode raised.
C10_OneCallPerStageNoRetry ==
    /\ \A n \in LlmNodes : llm_calls[n] <= 1
    /\ search_calls <= 1
    /\ encode_calls <= 1
    /\ (llm_raised # "none" => llm_calls[llm_raised] = 1)
    /\ (retrieval = "search_raised" => search_calls = 1)
    /\ (pc = "END" =>
            /\ \A n \in LlmNodes : llm_calls[n] = 1
            /\ encode_calls = 1
            /\ search_calls = IF retrieval = "encode_raised" THEN 0 ELSE 1)

C10_Witness ==
    /\ pc = "END"
    /\ retrieval = "encode_raised"
    /\ search_calls = 0
    /\ \A n \in LlmNodes : llm_calls[n] = 1

\* C15: from the call of run on, in every state of the run, query is the
\* string that was passed to run.
C15_QueryNeverChanges ==
    pc # "idle" => state.query = run_query

C15_Witness ==
    /\ pc = "END"
    /\ state.refined_query = "rq"
    /\ state.query = run_query

\* the label a stage writes into sender, and the label of the stage that reads next
StageLabel(node) ==
    CASE node = "refine_query" -> "query_refiner"
      [] node = "retrieve_data" -> "retriever"
      [] node = "synthesize_data" -> "synthesizer"
      [] node = "generate_report" -> "reporter"
      [] OTHER -> "user"

\* C16: while the run is between stages or has returned, sender names the
\* stage that returned last and receiver the stage that reads next (the user
\* after the Reporter).
C16_ProvenanceNamesLastWriter ==
    completed # <<>> /\ phase = "ready" /\ pc \in Nodes \cup {"END"} =>
        LET last == completed[Len(completed)]
        IN /\ state.sender = StageLabel(last)
           /\ state.receiver = StageLabel(next_node(last))

\* C19: when the response parsed to an object, every field the object has is
\* copied and every field it lacks takes its default: the query, "understand",
\* "medium", false and [query].
C19_MissingFieldsTakeDefaults ==
    parse_outcome = "mapping" /\ "refine_query" \in Range(completed) =>
        /\ state.refined_query =
              (IF analysis.refined_query.present THEN analysis.refined_query.val
               ELSE run_query)
        /\ state.query_intent =
              (IF analysis.intent.present THEN analysis.intent.val ELSE "understand")
        /\ state.query_complexity =
              (IF analysis.complexity.present THEN analysis.complexity.val ELSE "medium")
        /\ state.requires_multi_hop =
              (IF analysis.requires_multi_hop.present
               THEN analysis.requires_multi_hop.val ELSE FALSE)
        /\ state.metadata =
              {[key |-> "key_concepts",
                value |-> IF analysis.key_concepts.present
                          THEN analysis.key_concepts.val ELSE <<run_query>>]}

\* C20: when the parsed refined_query is the empty string, refined_query is the
\* query once the Refiner has returned.
C20_EmptyRefinementFallsBack ==
    /\ parse_outcome = "mapping"
    /\ "refine_query" \in Range(completed)
    /\ analysis.refined_query = JField(TRUE, "")
    => state.refined_query = run_query

Terminal == {"END", "RAISED"}

\* C11: two calls of run with the same query, the same store and the same
\* deterministic model stub end the same way, with equal refined_query, equal
\* retrieved_chunks in equal order and equal sender/receiver trails.
C11_SameQuerySameOutcome ==
    \A i, j \in DOMAIN runs :
        /\ runs[i].pos \in Terminal
        /\ runs[j].pos \in Terminal
        /\ runs[i].query = runs[j].query
        => /\ runs[i].pos = runs[j].pos
           /\ runs[i].trail = runs[j].trail
           /\ deref(heap, runs[i].ref).refined_query = deref(heap, runs[j].ref).refined_query
           /\ deref(heap, runs[i].ref).retrieved_chunks = deref(heap, runs[j].ref).retrieved_chunks

\* the second call was made after the first had returned
C11_Witness ==
    /\ Len(runs) >= 2
    /\ runs[1].pos = "END" /\ runs[2].pos = "END"
    /\ ~runs[1].overlap /\ ~runs[2].overlap
    /\ runs[1].query = runs[2].query
    /\ Len(runs[2].trail) = 4
    /\ deref(heap, runs[2].ref).refined_query = "rq"
    /\ Len(deref(heap, runs[2].ref).retrieved_chunks) = 2

\* C12: whatever the interleaving, a call of run that is over ended as it
\* does alone, and the instance it holds is the final state it has alone.
C12_RunsAreIsolated ==
    \A i \in DOMAIN runs :
        runs[i].pos \in Terminal =>
            LET alone == Solo(runs[i])
            IN /\ runs[i].pos = alone.run.pos
               /\ runs[i].error = alone.run.error
               /\ runs[i].trail = alone.run.trail
               /\ deref(heap, runs[i].ref) = alone.st

\* two calls with different queries that were in flight together
C12_Witness ==
    /\ Len(runs) >= 2
    /\ runs[1].pos = "END" /\ runs[2].pos = "END"
    /\ runs[1].overlap /\ runs[2].overlap
    /\ runs[1].query # runs[2].query
    /\ deref(heap, runs[1].ref).metadata # deref(heap, runs[2].ref).metadata

\* C13: with a model that returns non-empty text, once the Retriever
\* returned with retrieved_chunks = [], the Synthesizer has issued its model
\* call and has not raised by itself; when the call returned, its text is the
\* non-empty synthesized_response and the Reporter has issued its model call;
\* when that returned, its text is the non-empty final_report.
C13_EmptyRetrievalStillAnswers ==
    \A i \in DOMAIN runs :
        LET st == deref(heap, runs[i].ref)
        IN Len(runs[i].trail) >= 2 /\ st.retrieved_chunks = <<>> =>
              /\ "llm:synthesize_data" \in Range(runs[i].calls)
              /\ runs[i].error # "AttributeError"
              /\ (Len(runs[i].trail) >= 3 =>
                     /\ "llm:generate_report" \in Range(runs[i].calls)
                     /\ st.synthesized_response = runs[i].synth_out
                     /\ st.synthesized_response \notin {"", None})
              /\ (runs[i].pos = "END" =>
                     /\ st.final_report = runs[i].report_out
                     /\ st.final_report \notin {"", None})

C13_Witness ==
    \E i \in DOMAIN runs :
        /\ runs[i].pos = "END"
        /\ deref(heap, runs[i].ref).retrieved_chunks = <<>>
        /\ deref(heap, runs[i].ref).synthesized_response = "answer"
        /\ deref(heap, runs[i].ref).final_report = "report"

C17_FailureStaysInItsRequest ==
    /\ (sess.pc \notin {"prompt", "processing"} => sess.ended_by \in {"quit", "cancel"})
    /\ \A i \in DOMAIN runs :
          /\ (runs[i].pos = "RAISED" /\ i # sess.cur /\ i \notin sess.abandoned
                 => i \in sess.reported)
          /\ (i \in sess.reported => runs[i].pos = "RAISED")
          /\ (i \in sess.displayed => runs[i].pos = "END")
          /\ (runs[i].pos \in Terminal /\ (\E j \in 1..(i - 1) : runs[j].pos = "RAISED")
                 => LET alone == Solo(runs[i])
                    IN /\ runs[i].pos = alone.run.pos
                       /\ runs[i].trail = alone.run.trail
                       /\ deref(heap, runs[i].ref) = alone.st)

\* the first request failed and was reported, the second was answered
C17_Witness ==
    /\ Len(runs) >= 2
    /\ runs[1].pos = "RAISED" /\ 1 \in sess.reported
    /\ runs[2].pos = "END" /\ 2 \in sess.displayed
    /\ sess.pc = "prompt"

\* C18: once a request was abandoned and the session is back at its prompt or
\* over, the pipeline task of that request is not pending in a model or store
\* call, and its result was not displayed.
C18_AbandonedTaskIsCancelled ==
    \A i \in sess.abandoned :
        /\ runs[i].pos \notin InFlight
        /\ i \notin sess.displayed

\* C21: every search the Retriever issued was made with refined_query when
\* that is neither null nor empty and with the query otherwise, and never with
\* a null or empty text.
C21_SearchesWithRefinedOrQuery ==
    \A i \in 1..Len(search_log) :
        /\ search_log[i] = (IF state.refined_query \in {None, ""}
                            THEN run_query ELSE state.refined_query)
        /\ search_log[i] \notin {None, ""}

\* the model returned an empty refined query and the search used the query
C21_Witness ==
    /\ search_log = <<run_query>>
    /\ state.refined_query = ""
    /\ retrieval = "ok"

\* C22: the items converted are those of the first element of a tuple (also
\* of a tuple that has a points attribute), else those of the points
\* attribute, else those of the list; an empty tuple, a tuple whose first
\* element is no collection and any other value give the empty result.
C22_ShapeResolvedInPriorityOrder ==
    norm_pc = "done" =>
        chunks = convert_points(
                    CASE response.kind = "tuple" /\ response.first = "list" -> response.items
                      [] response.kind = "tuple" -> <<>>
                      [] response.has_points -> response.points
                      [] response.kind = "list" -> response.items
                      [] OTHER -> <<>>,
                    0)

\* a tuple that also has a points attribute: its first element was used
C22_Witness ==
    /\ norm_pc = "done"
    /\ response.kind = "tuple"
    /\ response.has_points
    /\ response.points = <<>>
    /\ Len(chunks) = 2

\* the items that are records of one of the three kinds, with or without an id
IsRecordItem(p) == p.kind \in {"object", "noid", "dict", "tuple"}

\* C23: when no item fails while it is read, the output has one record for
\* every item that is an object, a mapping or a tuple, the objects without an
\* id attribute included.
C23_EveryRecordItemEmitted ==
    /\ norm_pc = "done"
    /\ ThreeShapes(response)
    /\ \A i \in 1..Len(InputItems(response)) : InputItems(response)[i].kind # "failing"
    => Len(chunks) =
          Cardinality({i \in 1..Len(InputItems(response)) : IsRecordItem(InputItems(response)[i])})

\* C24: once the Retriever returned, building the context from
\* retrieved_chunks does not raise, and the Synthesizer raises only when its
\* model call does.
C24_ContextNeverRaises ==
    /\ ("retrieve_data" \in Range(completed) => ~format_context_raises(state.retrieved_chunks))
    /\ (raised_in = "synthesize_data" => error = "LLMError")

\* C25: no step of a run removes an entry of metadata or changes its value.
C25_MetadataOnlyGrows ==
    [][pc # "idle" => \A e \in state.metadata : e \in state'.metadata]_vars

\* the key concepts written by the Refiner are there when the run returns
C25_Witness ==
    /\ pc = "END"
    /\ state.metadata = {[key |-> "key_concepts", value |-> <<"k1", "k2">>]}

RefinerFields(st) ==
    <<st.refined_query, st.query_intent, st.query_complexity, st.requires_multi_hop>>

\* C26: a step changes the Refiner's four fields only in refine_query,
\* retrieved_chunks only in retrieve_data, synthesized_response only in
\* synthesize_data and final_report only in generate_report;
\* synthesized_response is null until the Synthesizer returned and
\* final_report is null until the Reporter returned.
C26_StagesWriteOwnFields ==
    [][pc # "idle" =>
          /\ (RefinerFields(state') # RefinerFields(state) => pc = "refine_query")
          /\ (state'.retrieved_chunks # state.retrieved_chunks => pc = "retrieve_data")
          /\ (state'.synthesized_response # state.synthesized_response
                 => pc = "synthesize_data")
          /\ (state'.final_report # state.final_report => pc = "generate_report")
          /\ (state'.synthesized_response # None => "synthesize_data" \in Range(completed'))
          /\ (state'.final_report # None => "generate_report" \in Range(completed'))]_vars

\* every stage has written its field and the run returned
C26_Witness ==
    /\ pc = "END"
    /\ state.refined_query = "rq"
    /\ state.retrieved_chunks # <<>>
    /\ state.synthesized_response = "answer"
    /\ state.final_report = "report"

\* C27: whenever process_query is not running, every animation it started
\* has been stopped (is_running false, thread joined), whether it returned
\* the result or raised.
C27_AnimationStoppedOnEveryExit ==
    sess.pc # "processing" => sess.animations = 0

\* C28: create_collection is called only when the store has no collection of
\* the uploader's name; when it has one, no creation is attempted.
C28_CreatesOnlyWhenMissing ==
    uploader.create_calls # <<>> => uploader.collection_name \notin uploader.existing

RECURSIVE Concat(_)
Concat(ss) == IF ss = <<>> THEN <<>> ELSE Head(ss) \o Concat(Tail(ss))

ceil_div(n, d) == (n + d - 1) \div d

\* C29: when upload_points returns (batch_size >= 1), it made
\* ceil(n / batch_size) upsert calls, none for n = 0; the batches are non-empty,
\* of at most batch_size points, and joined in call order they are the input,
\* so each point was sent exactly once and in input order; the value returned
\* holds the status of each call in call order.
C29_BatchesCoverPointsInOrder ==
    upload.pc = "returned" =>
        /\ Len(upload.calls) = ceil_div(Len(upload.points), upload.batch_size)
        /\ Concat(upload.calls) = upload.points
        /\ \A k \in 1..Len(upload.calls) : Len(upload.calls[k]) \in 1..upload.batch_size
        /\ upload.returned = upload.replies
        /\ Len(upload.returned) = Len(upload.calls)

\* three points in batches of two: a full batch and a shorter last one
C29_Witness ==
    /\ upload.pc = "returned"
    /\ upload.batch_size = 2
    /\ upload.calls = <<<<1, 2>>, <<3>>>>
    /\ upload.returned = <<"completed", "acknowledged">>

\* the ids given to register so far
Registered(log) == {log[k].id : k \in 1..Len(log)}

\* the first spec given to register under this id
FirstSpec(log, id) == log[Min({k \in 1..Len(log) : log[k].id = id})]

\* the ids given to register, each once, in the order of their first call
RECURSIVE FirstIds(_)
FirstIds(log) ==
    IF log = <<>> THEN <<>>
    ELSE LET init == SubSeq(log, 1, Len(log) - 1)
             id == log[Len(log)].id
         IN  IF id \in Registered(init) THEN FirstIds(init)
             ELSE Append(FirstIds(init), id)

\* C30: after any calls of register, get and list, every id given to register
\* maps to the first spec registered under it and no other id is known; list
\* gives each registered id once, in registration order; a register of a
\* present id raised ValueError and a get of an unknown id raised KeyError,
\* and neither these nor any get or list changed the registry.
C30_RegistryKeepsFirstSpec ==
    registry.pc = "ready" =>
        /\ \A id \in AgentIds :
              IF id \in Registered(registry.log)
              THEN /\ get(registry.agents, id).raised = "none"
                   /\ get(registry.agents, id).result = FirstSpec(registry.log, id)
              ELSE get(registry.agents, id).raised = "KeyError"
        /\ list(registry.agents) = FirstIds(registry.log)
        /\ registry.last.op = "register" =>
              IF has_key(registry.last.before, registry.last.arg.id)
              THEN /\ registry.last.raised = "ValueError"
                   /\ registry.agents = registry.last.before
              ELSE /\ registry.last.raised = "none"
                   /\ registry.agents = Append(registry.last.before, registry.last.arg)
        /\ registry.last.op = "get" =>
              /\ registry.agents = registry.last.before
              /\ IF registry.last.arg \in Registered(registry.log)
                 THEN /\ registry.last.raised = "none"
                      /\ registry.last.result = FirstSpec(registry.log, registry.last.arg)
                 ELSE registry.last.raised = "KeyError"
        /\ registry.last.op = "list" =>
              /\ registry.agents = registry.last.before
              /\ registry.last.raised = "none"
              /\ registry.last.result = FirstIds(registry.log)

\* a second spec for a1 was refused after a1 and a2 had been registered
C30_Witness ==
    /\ registry.agents = <<[id |-> "a1", role |-> "r1"], [id |-> "a2", role |-> "r1"]>>
    /\ registry.last.op = "register"
    /\ registry.last.arg = [id |-> "a1", role |-> "r2"]
    /\ registry.last.raised = "ValueError"

TypeOK ==
    /\ pc \in {"idle", "END", "RAISED"} \cup Nodes
    /\ phase \in {"ready", "awaiting"}
    /\ error \in {"none", "LLMError", "AttributeError"}

====
